---------------------------- MODULE Spec2Model ----------------------------
(***************************************************************************)
(* A model of basic-config-store (src/src/BasicConfigStore.js): a store of  *)
(* values addressed by dot-delimited paths, with observers that are         *)
(* notified synchronously when the exact path they watch is written.        *)
(*                                                                           *)
(* A path is a sequence of one-character strings, so that match, split and   *)
(* the exact-string lookup of the observer registry are computed and not     *)
(* assumed.  A JavaScript value is a record: a primitive (t = "prim", with   *)
(* v its text; "undefined" is the absent marker and "" a falsy scalar) or    *)
(* an object (t = "obj", with kids its own properties).  The store only      *)
(* ever reaches an object through one property, so the tree of objects is    *)
(* kept as a value and an in-place assignment is a rewrite of the tree.      *)
(* The file is in strict mode: creating a property on a primitive throws.    *)
(***************************************************************************)
EXTENDS Integers, Sequences, FiniteSets, TLC

VARIABLES
  data,          \* instance -> the tree of _data
  observerList,  \* instance -> (path -> sequence of registered handlers)
  ids,           \* instance -> its _id
  observers,     \* observer object -> ('bc' + _id -> (path -> index))
  stack,         \* the notify() rounds in progress, innermost last
  written,       \* history: instance -> the paths setConfigProperty assigned
  active,        \* history: instance -> (path, observer) -> handler registered
  call,          \* history: the last call made from outside a handler
  round          \* history: the last notify() round that finished

vars == <<data, observerList, ids, observers, stack, written, active, call,
          round>>

-----------------------------------------------------------------------------
(* Inputs *)

PathA == <<"a">>
PathAB == <<"a", ".", "b">>
PathABC == <<"a", ".", "b", ".", "c">>

\* The paths the calls are made with: a chain of ancestor and descendants.
Paths == {PathA, PathAB, PathABC}

\* The values written: a falsy scalar and two truthy ones.
Values == {"", "x", "y"}

Observers == {"o1", "o2", "o3"}

GlobalInst == "global"
LocalInst == "local"

\* What a handler does when it is called (the README's handlers call the
\* store from inside the notification).
\*   nop      nothing
\*   unself   unobserveConfig(its observer, data.property)
\*   unother  unobserveConfig(the next observer, data.property)
\*   obsnext  observeConfig(the next observer, data.property, a nop handler)
\*   reset    setConfigProperty(data.property, "y") unless data.value is "y"
Kinds == {"nop", "unself", "unother", "obsnext", "reset"}

ResetValue == "y"

NextObserver(o) ==
  CASE o = "o1" -> "o2"
    [] o = "o2" -> "o3"
    [] OTHER -> "o1"

\* The longest handler sequence observeConfig is called on.
MaxList == 3

-----------------------------------------------------------------------------
(* Values *)

Prim(s) == [t |-> "prim", v |-> s, kids |-> <<>>]
Undefined == Prim("undefined")
EmptyObject == [t |-> "obj", v |-> "", kids |-> <<>>]

IsObject(n) == n.t = "obj"

\* JavaScript truthiness: every object, and every primitive but undefined
\* and the empty string (the falsy scalar of the model).
Truthy(n) == IsObject(n) \/ n.v \notin {"undefined", ""}

\* obj[name] as a read: an own property of an object, else undefined (a
\* primitive string has no property named by a segment of the model).
GetProp(n, name) ==
  IF IsObject(n) /\ name \in DOMAIN n.kids THEN n.kids[name] ELSE Undefined

\* obj[name] = val on an object.
PutProp(n, name, val) ==
  [n EXCEPT !.kids = [k \in DOMAIN n.kids \cup {name} |->
                        IF k = name THEN val ELSE n.kids[k]]]

RECURSIVE NodeAt(_, _)
\* The value reached from root by the segments segs.
NodeAt(root, segs) ==
  IF segs = <<>> THEN root
  ELSE NodeAt(GetProp(root, Head(segs)), Tail(segs))

RECURSIVE AssignAt(_, _, _, _)
\* The tree after (the object at segs)[name] = val.
AssignAt(root, segs, name, val) ==
  IF segs = <<>> THEN PutProp(root, name, val)
  ELSE PutProp(root, Head(segs),
               AssignAt(GetProp(root, Head(segs)), Tail(segs), name, val))

-----------------------------------------------------------------------------
(* Paths *)

\* path.match(/\./)
Match(path) == \E i \in 1..Len(path) : path[i] = "."

RECURSIVE Split(_)
\* path.split('.')
Split(path) ==
  IF ~Match(path) THEN <<path>>
  ELSE LET i == CHOOSE j \in 1..Len(path) :
                  path[j] = "." /\ \A k \in 1..(j - 1) : path[k] # "."
       IN <<SubSeq(path, 1, i - 1)>> \o Split(SubSeq(path, i + 1, Len(path)))

getPropertyName(path) ==
  IF Match(path)
  THEN LET _path == Split(path) IN _path[Len(_path)]
  ELSE path

RECURSIVE Every(_, _, _, _)
\* The callback of _path.every in getParentObject, from the element at
\* position k (index k - 1): _obj = _obj[name] || (_obj[name] = {}), and the
\* loop goes on while (index + 1) < lastIndex.  cur is where _obj is in the
\* tree.  The assignment throws when _obj is a primitive.
Every(root, cur, _path, k) ==
  LET name == _path[k]
      _obj == NodeAt(root, cur)
      found == GetProp(_obj, name)
      lastIndex == Len(_path) - 1
  IN IF ~Truthy(found) /\ ~IsObject(_obj)
     THEN [data |-> root, parent |-> cur, threw |-> TRUE]
     ELSE LET root2 == IF Truthy(found) THEN root
                       ELSE AssignAt(root, cur, name, EmptyObject)
              cur2 == Append(cur, name)
          IN IF k < lastIndex /\ k < Len(_path)
             THEN Every(root2, cur2, _path, k + 1)
             ELSE [data |-> root2, parent |-> cur2, threw |-> FALSE]

\* getParentObject(path) on the tree root: the tree it leaves, where the
\* object it returns is, and whether it threw.
getParentObject(root, path) ==
  IF Match(path) THEN Every(root, <<>>, Split(path), 1)
  ELSE [data |-> root, parent |-> <<>>, threw |-> FALSE]

-----------------------------------------------------------------------------
(* The observer registry *)

\* The index values getObserverIndex can return besides a position.
NaN == -1
UndefinedIndex == -2

isNaN(x) == x \in {NaN, UndefinedIndex}

\* A registered handler: the function (what it does, and the observer it is
\* bound to), with the path it was registered for and the rank of its
\* registration among the handlers of its sequence (history).
Handler(kind, o, p, t) == [kind |-> kind, o |-> o, p |-> p, t |-> t]

\* A position past the end of an array reads as undefined.
NoHandler == Handler("undefined", "", <<>>, 0)

\* _observerList[key] as a read.
LookupList(lists, key) == IF key \in DOMAIN lists THEN lists[key] ELSE <<>>

\* getObserverList(key): the sequence, created when missing.
getObserverList(lists, key) ==
  [lists |-> [k \in DOMAIN lists \cup {key} |->
                IF k \in DOMAIN lists THEN lists[k] ELSE <<>>],
   list |-> LookupList(lists, key)]

IndexKeyShared(id) == "bc"

\* 'bc' + _id, the property of the observer that holds its indexes.
IndexKey(id) == "bc" \o id

\* getObserverIndex(observer, property) of the instance with this _id.
getObserverIndex(obs, o, id, property) ==
  LET _basicConfig == IF IndexKey(id) \in DOMAIN obs[o]
                      THEN obs[o][IndexKey(id)] ELSE <<>>
  IN IF property \in DOMAIN _basicConfig THEN _basicConfig[property]
     ELSE UndefinedIndex

\* setObserverIndex(observer, property, index) of the instance with this _id.
setObserverIndex(obs, o, id, property, index) ==
  LET key == IndexKey(id)
      _basicConfig == IF key \in DOMAIN obs[o] THEN obs[o][key] ELSE <<>>
      updated == [q \in DOMAIN _basicConfig \cup {property} |->
                    IF q = property THEN index ELSE _basicConfig[q]]
  IN [obs EXCEPT ![o] = [k \in DOMAIN obs[o] \cup {key} |->
                           IF k = key THEN updated ELSE obs[o][k]]]

\* _list.push(handler)
Push(list, h) == Append(list, h)

\* _list.splice(_index, 1): nothing is removed past the end.
Splice(list, index) ==
  IF index + 1 > Len(list) THEN list
  ELSE SubSeq(list, 1, index) \o SubSeq(list, index + 2, Len(list))

\* The registration ranks after the handler at index is removed (history).
Rerank(list, index) ==
  IF index + 1 > Len(list) THEN list
  ELSE [k \in 1..Len(list) |->
          IF list[k].t > list[index + 1].t
          THEN [list[k] EXCEPT !.t = @ - 1] ELSE list[k]]

MaxRank(list) ==
  IF list = <<>> THEN 0
  ELSE CHOOSE m \in {list[k].t : k \in 1..Len(list)} :
         \A k \in 1..Len(list) : list[k].t <= m

-----------------------------------------------------------------------------
(* The calls.  A call is a function of the store's state st, so that a      *)
(* handler makes the same calls from inside a notification.                  *)

Cur ==
  [data |-> data, observerList |-> observerList, observers |-> observers,
   stack |-> stack, written |-> written, active |-> active,
   threw |-> FALSE, reentered |-> FALSE, ret |-> Undefined]

\* An exception nobody catches ends every round in progress.
Throw(st) == [st EXCEPT !.stack = <<>>, !.threw = TRUE]

\* Whether the call is made by a handler.
Inside(st) == st.stack # <<>>

\* this.observeConfig(observer, property, handler) of instance i; the
\* handler is the function of this kind bound to the observer.
observeConfig(st, i, observer, property, kind) ==
  LET got == getObserverList(st.observerList[i], property)
      _list == got.list
      _index == getObserverIndex(st.observers, observer, ids[i], property)
  IN IF isNaN(_index)
     THEN LET pushed == Push(_list, Handler(kind, observer, property,
                                            MaxRank(_list) + 1))
          IN [st EXCEPT
                !.observerList[i] = [got.lists EXCEPT ![property] = pushed],
                !.observers = setObserverIndex(st.observers, observer, ids[i],
                                               property, Len(pushed) - 1),
                !.active[i] = [k \in DOMAIN st.active[i]
                                       \cup {<<property, observer>>} |->
                                 IF k = <<property, observer>> THEN kind
                                 ELSE st.active[i][k]]]
     ELSE [st EXCEPT !.observerList[i] = got.lists]

unobserveConfigUnguarded(st, i, observer, property) ==
  LET got == getObserverList(st.observerList[i], property)
      _list == got.list
      _index == getObserverIndex(st.observers, observer, ids[i], property)
      start == IF isNaN(_index) THEN 0 ELSE _index
  IN [st EXCEPT
        !.observerList[i] =
           [got.lists EXCEPT ![property] = Splice(Rerank(_list, start), start)],
        !.observers = setObserverIndex(st.observers, observer, ids[i],
                                       property, NaN),
        !.active[i] = [k \in DOMAIN st.active[i] \ {<<property, observer>>} |->
                         st.active[i][k]]]

\* this.unobserveConfig(observer, property) of instance i.
unobserveConfig(st, i, observer, property) ==
  LET got == getObserverList(st.observerList[i], property)
      _list == got.list
      _index == getObserverIndex(st.observers, observer, ids[i], property)
      left == [k \in DOMAIN st.active[i] \ {<<property, observer>>} |->
                 st.active[i][k]]
  IN IF ~isNaN(_index)
     THEN [st EXCEPT
             !.observerList[i] =
                [got.lists EXCEPT ![property] =
                                    Splice(Rerank(_list, _index), _index)],
             !.observers = setObserverIndex(st.observers, observer, ids[i],
                                            property, NaN),
             !.active[i] = left]
     ELSE [st EXCEPT !.observerList[i] = got.lists, !.active[i] = left]

\* The handlers registered through the API for property, by observer.
ActiveOn(st, i, property) ==
  [o \in {o \in Observers : <<property, o>> \in DOMAIN st.active[i]} |->
     st.active[i][<<property, o>>]]

NotifyKeyParent(property) ==
  IF Match(property)
  THEN LET _path == Split(property)
           n == Len(property) - Len(_path[Len(_path)]) - 1
       IN SubSeq(property, 1, n)
  ELSE property

\* The key notify looks the handlers up by: the property as it was passed.
NotifyKey(property) == property

\* notify(property, value) of instance i: a round over a copy of the
\* handlers, when there is a sequence for the property.
notify(st, i, property, value) ==
  IF NotifyKey(property) \in DOMAIN st.observerList[i]
  THEN LET _list == st.observerList[i][NotifyKey(property)]
       IN [st EXCEPT !.stack = Append(@,
             [inst |-> i, property |-> property, value |-> value,
              list |-> _list, i |-> Len(_list),
              start |-> LookupList(st.observerList[i], property),
              act |-> ActiveOn(st, i, property),
              invoked |-> <<>>])]
  ELSE st

\* this.getConfigProperty(property) of instance i.
getConfigProperty(st, i, property) ==
  LET _name == getPropertyName(property)
      _parent == getParentObject(st.data[i], property)
  IN IF _parent.threw THEN Throw(st)
     ELSE [st EXCEPT !.data[i] = _parent.data,
                     !.ret = GetProp(NodeAt(_parent.data, _parent.parent),
                                     _name)]

setConfigPropertyUnassigned(st, i, property, value) ==
  LET _parent == getParentObject(st.data[i], property)
  IN IF _parent.threw \/ ~IsObject(NodeAt(_parent.data, _parent.parent))
     THEN Throw(st)
     ELSE notify([st EXCEPT !.data[i] = _parent.data,
                            !.written[i] = @ \cup {property},
                            !.reentered = Inside(st)],
                 i, property, value)

\* this.setConfigProperty(property, value) of instance i.
setConfigProperty(st, i, property, value) ==
  LET _name == getPropertyName(property)
      _parent == getParentObject(st.data[i], property)
  IN IF _parent.threw \/ ~IsObject(NodeAt(_parent.data, _parent.parent))
     THEN Throw(st)
     ELSE notify([st EXCEPT
                    !.data[i] = AssignAt(_parent.data, _parent.parent, _name,
                                         Prim(value)),
                    !.written[i] = @ \cup {property},
                    !.reentered = Inside(st)],
                 i, property, value)

\* What the handler h does when notify calls it with
\* { property: property, value: value }.
HandlerBody(st, i, h, property, value) ==
  CASE h.kind = "unself" -> unobserveConfig(st, i, h.o, property)
    [] h.kind = "unother" ->
         unobserveConfig(st, i, NextObserver(h.o), property)
    [] h.kind = "obsnext" ->
         observeConfig(st, i, NextObserver(h.o), property, "nop")
    [] h.kind = "reset" /\ value # ResetValue ->
         setConfigProperty(st, i, property, ResetValue)
    [] OTHER -> st

RoundListLive(st, f) == LookupList(st.observerList[f.inst], f.property)

\* The _list of a round: the copy notify took with concat().
RoundList(st, f) == f.list

CalleeForward(st, f) ==
  LET _list == RoundList(st, f)
      k == Len(f.list) + 1 - f.i
  IN IF k \in 1..Len(_list) THEN _list[k] ELSE NoHandler

\* _list[i] after i--, the handler the round calls next.
Callee(st, f) ==
  LET _list == RoundList(st, f)
  IN IF f.i \in 1..Len(_list) THEN _list[f.i] ELSE NoHandler

-----------------------------------------------------------------------------
(* The state machine *)

NoRound ==
  [done |-> FALSE, aborted |-> FALSE, inst |-> "", property |-> <<>>,
   value |-> "", start |-> <<>>, act |-> <<>>, invoked |-> <<>>, depth |-> 0]

RoundOf(f, depth, aborted) ==
  [done |-> TRUE, aborted |-> aborted, inst |-> f.inst,
   property |-> f.property, value |-> f.value, start |-> f.start,
   act |-> f.act, invoked |-> f.invoked, depth |-> depth]

Status(st) ==
  IF st.threw THEN "threw" ELSE IF st.stack = <<>> THEN "returned" ELSE "running"

\* The record of a call made from outside a handler.  obs is the observer
\* of an observeConfig or unobserveConfig.  kind and prior are kept for a
\* repeated observeConfig only: the handler it passes and the handler the
\* observer has registered (prior), with same telling whether the call left
\* the handler sequence as it was.  delivered is the value each handler
\* (the function of a kind bound to an observer) was last called with by
\* the rounds of the call.
Call(op, i, path, value, st) ==
  [op |-> op, inst |-> i, path |-> path, value |-> value, obs |-> "",
   kind |-> "", prior |-> "", same |-> FALSE, status |-> Status(st),
   reentered |-> FALSE, delivered |-> <<>>]

\* The values last delivered, after the handler h is called with value.
Deliver(delivered, h, value) ==
  [k \in DOMAIN delivered \cup {<<h.o, h.kind>>} |->
     IF k = <<h.o, h.kind>> THEN value ELSE delivered[k]]

Commit(st) ==
  /\ data' = st.data
  /\ observerList' = st.observerList
  /\ observers' = st.observers
  /\ stack' = st.stack
  /\ written' = st.written
  /\ active' = st.active

\* _id = createRandomString(): 24 random hexadecimal digits around the low
\* digits of the clock, taken here as a string no other instance has.
IdStrings == {"1A", "2B"}

createRandomString(used) == CHOOSE s \in IdStrings : s \notin used

Instances == DOMAIN data

\* var global = new BasicConfigStore()
Init ==
  /\ data = [i \in {GlobalInst} |-> EmptyObject]
  /\ observerList = [i \in {GlobalInst} |-> <<>>]
  /\ ids = [i \in {GlobalInst} |-> createRandomString({})]
  /\ observers = [o \in Observers |-> <<>>]
  /\ stack = <<>>
  /\ written = [i \in {GlobalInst} |-> {}]
  /\ active = [i \in {GlobalInst} |-> <<>>]
  /\ call = Call("new", GlobalInst, <<>>, "", Cur)
  /\ round = NoRound

\* createConfig(): return new BasicConfigStore()
CreateConfig ==
  /\ stack = <<>>
  /\ LocalInst \notin Instances
  /\ LET grow(f, x) == [i \in DOMAIN f \cup {LocalInst} |->
                          IF i = LocalInst THEN x ELSE f[i]]
     IN /\ data' = grow(data, EmptyObject)
        /\ observerList' = grow(observerList, <<>>)
        /\ ids' = grow(ids, createRandomString({ids[i] : i \in DOMAIN ids}))
        /\ written' = grow(written, {})
        /\ active' = grow(active, <<>>)
  /\ call' = Call("new", LocalInst, <<>>, "", Cur)
  /\ round' = NoRound
  /\ UNCHANGED <<observers, stack>>

GetConfigProperty(i, property) ==
  /\ stack = <<>>
  /\ LET st == getConfigProperty(Cur, i, property)
     IN /\ Commit(st)
        /\ call' = Call("get", i, property, "", st)
  /\ round' = NoRound
  /\ UNCHANGED ids

SetConfigProperty(i, property, value) ==
  /\ stack = <<>>
  /\ LET st == setConfigProperty(Cur, i, property, value)
     IN /\ Commit(st)
        /\ call' = Call("set", i, property, value, st)
  /\ round' = NoRound
  /\ UNCHANGED ids

ObserveConfig(i, observer, property, kind) ==
  /\ stack = <<>>
  /\ Len(LookupList(observerList[i], property)) < MaxList
  /\ LET st == observeConfig(Cur, i, observer, property, kind)
         prior == IF <<property, observer>> \in DOMAIN active[i]
                  THEN active[i][<<property, observer>>] ELSE ""
     IN /\ Commit(st)
        /\ call' = IF prior = ""
                    THEN [Call("observe", i, property, "", st) EXCEPT
                            !.obs = observer]
                    ELSE [Call("observe", i, property, "", st) EXCEPT
                            !.obs = observer, !.kind = kind, !.prior = prior,
                            !.same = (st.observerList[i][property]
                                      = LookupList(observerList[i], property))]
  /\ round' = NoRound
  /\ UNCHANGED ids

UnobserveConfig(i, observer, property) ==
  /\ stack = <<>>
  /\ LET st == unobserveConfig(Cur, i, observer, property)
     IN /\ Commit(st)
        /\ call' = [Call("unobserve", i, property, "", st) EXCEPT
                      !.obs = observer]
  /\ round' = NoRound
  /\ UNCHANGED ids

\* One turn of the loop of notify with i > 0: i--, then the call of _list[i].
NotifyCall ==
  /\ stack # <<>>
  /\ LET n == Len(stack)
         f == stack[n]
         h == Callee(Cur, f)
         data_ == [property |-> f.property, value |-> f.value]
         st1 == [Cur EXCEPT !.stack[n].i = @ - 1,
                            !.stack[n].invoked =
                               Append(@, [h |-> h, data |-> data_])]
         st2 == IF h = NoHandler THEN Throw(st1)
                ELSE HandlerBody(st1, f.inst, h, f.property, f.value)
     IN /\ f.i > 0
        /\ \A q \in DOMAIN st2.observerList[f.inst] :
              Len(st2.observerList[f.inst][q]) <= MaxList
        /\ Commit(st2)
        /\ call' = [call EXCEPT !.status = Status(st2),
                                !.reentered = @ \/ st2.reentered,
                                !.delivered = Deliver(@, h, f.value)]
        /\ round' = IF st2.threw
                    THEN RoundOf(st1.stack[1], 1, TRUE) ELSE round
  /\ UNCHANGED ids

\* The loop of notify ends (i is 0) and notify returns, and with it the
\* setConfigProperty that called it.
NotifyReturn ==
  /\ stack # <<>>
  /\ LET n == Len(stack)
         f == stack[n]
     IN /\ f.i = 0
        /\ stack' = SubSeq(stack, 1, n - 1)
        /\ round' = RoundOf(f, n, FALSE)
        /\ call' = [call EXCEPT
                      !.status = IF n = 1 THEN "returned" ELSE "running"]
  /\ UNCHANGED <<data, observerList, ids, observers, written, active>>

\* The store: the default instance called with every path and value, and
\* one observer that watches any of the paths, with a handler that does
\* nothing or one that writes the property again.
Next ==
  \/ \E p \in Paths : GetConfigProperty(GlobalInst, p)
  \/ \E p \in Paths, v \in Values : SetConfigProperty(GlobalInst, p, v)
  \/ \E p \in Paths, k \in {"nop", "reset"} :
        ObserveConfig(GlobalInst, "o1", p, k)
  \/ \E p \in Paths : UnobserveConfig(GlobalInst, "o1", p)
  \/ NotifyCall
  \/ NotifyReturn

Spec == Init /\ [][Next]_vars

\* The store with the loop of notify running on: a round in progress makes
\* its next call, and returns when it has made the last one (the calls are
\* synchronous, and nothing else runs meanwhile).
SpecRunning ==
  Init /\ [][Next]_vars /\ WF_vars(NotifyCall) /\ WF_vars(NotifyReturn)

\* The registry: every observer registers and unregisters on one path, in
\* any order, with handlers that do nothing.
NextObservers ==
  \/ \E v \in {"x", "y"} : SetConfigProperty(GlobalInst, PathAB, v)
  \/ \E o \in Observers : ObserveConfig(GlobalInst, o, PathAB, "nop")
  \/ \E o \in Observers : UnobserveConfig(GlobalInst, o, PathAB)
  \/ NotifyCall
  \/ NotifyReturn

SpecObservers == Init /\ [][NextObservers]_vars

\* The handlers two observers register: between them, every kind.
HandlersOf(o) ==
  IF o = "o1" THEN {"nop", "unother", "reset"} ELSE {"unself", "obsnext"}

\* The rounds: two observers of one path whose handlers call the store from
\* inside the notification.
NextHandlers ==
  \/ \E v \in {"x", "y"} : SetConfigProperty(GlobalInst, PathAB, v)
  \/ \E o \in {"o1", "o2"} : \E k \in HandlersOf(o) :
        ObserveConfig(GlobalInst, o, PathAB, k)
  \/ \E o \in {"o1", "o2"} : UnobserveConfig(GlobalInst, o, PathAB)
  \/ NotifyCall
  \/ NotifyReturn

SpecHandlers == Init /\ [][NextHandlers]_vars

\* The instances: the default instance and one made by createConfig, each
\* called with two paths and one observer that both can have registered.
NextInstances ==
  \/ CreateConfig
  \/ \E i \in Instances, p \in {PathA, PathAB} : GetConfigProperty(i, p)
  \/ \E i \in Instances, p \in {PathA, PathAB} :
        SetConfigProperty(i, p, "x")
  \/ \E i \in Instances, k \in {"nop", "unself"} :
        ObserveConfig(i, "o1", PathAB, k)
  \/ \E i \in Instances : UnobserveConfig(i, "o1", PathAB)
  \/ NotifyCall
  \/ NotifyReturn

SpecInstances == Init /\ [][NextInstances]_vars

-----------------------------------------------------------------------------
(* Properties *)

IsPrefix(s, t) == Len(s) <= Len(t) /\ SubSeq(t, 1, Len(s)) = s

\* p is q, an ancestor of q or a descendant of q.
Related(p, q) ==
  IsPrefix(Split(p), Split(q)) \/ IsPrefix(Split(q), Split(p))

\* What getConfigProperty(p) of instance i returns, called in this state.
Returned(i, p) == getConfigProperty(Cur, i, p).ret

\* What it returns called in the state a step leads to.
ReturnedNext(i, p) == getConfigProperty([Cur EXCEPT !.data = data'], i, p).ret

\* The call in progress or just made is this one, and it has returned.
Returns(op, i, p) ==
  /\ call.op = op
  /\ call.inst = i
  /\ call.path = p
  /\ call.status = "returned"

\* C1: in every reachable state, getConfigProperty(p) returns the absent
\* marker for every path p such that setConfigProperty has written neither
\* p, nor an ancestor of p, nor a descendant of p.
C1_UnwrittenPathReadsAbsent ==
  \A p \in Paths :
    (\A q \in written[GlobalInst] : ~Related(p, q))
      => Returned(GlobalInst, p) = Undefined

\* C3: getConfigProperty(p) has no side effects: it leaves the tree and the
\* observer registry as they were, so that every path reads after it as it
\* read before it.
C3_ReadChangesNothing ==
  [][call'.op = "get" =>
       /\ data' = data
       /\ observerList' = observerList
       /\ \A q \in Paths : ReturnedNext(GlobalInst, q) = Returned(GlobalInst, q)
    ]_vars


SegsAB == Split(PathAB)

\* C10: after setConfigProperty('a.b.c', v), getConfigProperty('a.b')
\* returns a mapping whose key 'c' holds v; after setConfigProperty('a.b',
\* s) with a scalar s, getConfigProperty('a.b') returns s and
\* getConfigProperty('a.b.c') returns the absent marker, and both reads
\* leave s stored at 'a.b'.  (Writes that a handler follows with a write of
\* its own are left out.)
C10_NestedWriteAndOverwrite ==
  [][/\ (Returns("set", GlobalInst, PathABC) /\ ~call.reentered)'
          => /\ IsObject(ReturnedNext(GlobalInst, PathAB))
             /\ GetProp(ReturnedNext(GlobalInst, PathAB), <<"c">>)
                  = Prim(call'.value)
     /\ (Returns("set", GlobalInst, PathAB) /\ ~call.reentered)'
          => /\ ReturnedNext(GlobalInst, PathAB) = Prim(call'.value)
             /\ ReturnedNext(GlobalInst, PathABC) = Undefined
     /\ (/\ Returns("set", GlobalInst, PathAB) /\ ~call.reentered
         /\ call'.op = "get"
         /\ call'.path \in {PathAB, PathABC})
          => NodeAt(data'[GlobalInst], SegsAB) = Prim(call.value)
    ]_vars


\* How many times a round called the handler of this kind that observer o
\* registered, with { property, value } of the round.
Calls(r, o, kind) ==
  Cardinality({k \in 1..Len(r.invoked) :
                 /\ r.invoked[k].h.o = o
                 /\ r.invoked[k].h.kind = kind
                 /\ r.invoked[k].data
                      = [property |-> r.property, value |-> r.value]})

\* C4: from observeConfig(o, p, h) until unobserveConfig(o, p), every
\* setConfigProperty(p, v) calls h exactly once with { property: p, value:
\* v }, and a setConfigProperty(p, _) made after unobserveConfig(o, p) calls
\* no handler of o; whatever the other observers of p register and
\* unregister.  (round.act holds the observers registered and not
\* unregistered when the round started.)
C4_CalledOncePerWriteUntilUnobserved ==
  round.done =>
    /\ \A o \in DOMAIN round.act : Calls(round, o, round.act[o]) = 1
    /\ \A k \in 1..Len(round.invoked) :
          round.invoked[k].h.o \in DOMAIN round.act

\* How many handlers of this kind registered by o the sequence of p holds.
Owned(i, p, o, kind) ==
  LET _list == LookupList(observerList[i], p)
  IN Cardinality({k \in 1..Len(_list) :
                    _list[k].o = o /\ _list[k].kind = kind})

\* C5: an observeConfig(o, p, h2) made while o has h1 registered for p
\* changes nothing: the sequence of p is as it was and holds h1 once and
\* not h2, so that the next setConfigProperty(p, v) calls h1 once and never
\* h2.
C5_RepeatedObserveChangesNothing ==
  (call.op = "observe" /\ call.prior # "") =>
    /\ call.same
    /\ Owned(call.inst, call.path, call.obs, call.prior) = 1
    /\ call.kind # call.prior
         => Owned(call.inst, call.path, call.obs, call.kind) = 0

\* The handlers were called from the last registered to the first.
LaterFirst(invoked) ==
  \A j, k \in 1..Len(invoked) : j < k => invoked[j].h.t > invoked[k].h.t

\* C6: in one round, of two handlers registered on the path the one
\* registered later is called before the one registered earlier, after any
\* sequence of observeConfig and unobserveConfig calls.
C6_LaterRegisteredCalledFirst ==
  /\ round.done => LaterFirst(round.invoked)
  /\ \A d \in 1..Len(stack) : LaterFirst(stack[d].invoked)

\* A round that called three handlers, the first registered again after the
\* other two.
C6_Witness ==
  /\ round.done
  /\ Len(round.invoked) = 3
  /\ round.invoked[1].h.o = "o1"
  /\ round.invoked[2].h.o = "o3"
  /\ round.invoked[3].h.o = "o2"

\* The calls a round has made are those of the handlers its path had when
\* it started, from the last one, each with { property, value } of the write.
CallsFromStart(invoked, start, property, value) ==
  \A k \in 1..Len(invoked) :
    /\ k <= Len(start)
    /\ invoked[k].h = start[Len(start) + 1 - k]
    /\ invoked[k].data = [property |-> property, value |-> value]

\* C7: a round calls exactly the handlers that were in the sequence of the
\* path when the round started, each once and each with { property, value }
\* of its write, whatever the handlers do meanwhile (unregister themselves
\* or another observer, register an observer, write the path again).
C7_RoundCallsWhatWasRegisteredAtStart ==
  /\ round.done =>
       /\ ~round.aborted
       /\ Len(round.invoked) = Len(round.start)
       /\ CallsFromStart(round.invoked, round.start, round.property,
                         round.value)
  /\ \A d \in 1..Len(stack) :
       /\ Len(stack[d].invoked) = Len(stack[d].start) - stack[d].i
       /\ CallsFromStart(stack[d].invoked, stack[d].start,
                         stack[d].property, stack[d].value)

\* A finished round whose first handler unregistered the observer of the
\* handler called next, which is no longer in the sequence.
C7_Witness ==
  /\ round.done
  /\ round.depth = 1
  /\ Len(round.invoked) >= 2
  /\ round.invoked[1].h.kind = "unother"
  /\ round.invoked[2].h.o = NextObserver(round.invoked[1].h.o)
  /\ LookupList(observerList[round.inst], round.property) # round.start
  /\ Len(LookupList(observerList[round.inst], round.property))
       < Len(round.start)

\* The instance a step acts on: the one of the round in progress, else the
\* one called.
Touched == IF stack # <<>> THEN stack[Len(stack)].inst ELSE call'.inst

\* The indexes the observers hold for instance j.
IndexesOf(j) ==
  [o \in Observers |->
     [p \in Paths |-> getObserverIndex(observers, o, ids[j], p)]]

OnlyFor(invoked, p) ==
  \A k \in 1..Len(invoked) :
    invoked[k].h.p = p /\ invoked[k].data.property = p

\* C9: setConfigProperty(q, v) calls no handler registered for a path other
\* than q, ancestors and descendants of q included.
C9_OnlyTheExactPathIsNotified ==
  /\ \A d \in 1..Len(stack) :
       stack[d].property = call.path /\ OnlyFor(stack[d].invoked, call.path)
  /\ round.done =>
       round.property = call.path /\ OnlyFor(round.invoked, call.path)

\* A write of 'a.b' called the handler of 'a.b' while 'a' and 'a.b.c' had
\* handlers too.
C9_Witness ==
  /\ Returns("set", GlobalInst, PathAB)
  /\ round.done
  /\ Len(round.invoked) = 1
  /\ Len(LookupList(observerList[GlobalInst], PathA)) = 1
  /\ Len(LookupList(observerList[GlobalInst], PathABC)) = 1

\* The observers of the handlers of a sequence, in its order.
Owners(list) == [k \in 1..Len(list) |-> list[k].o]

\* C11: unobserveConfig(o, p) called while o holds an index for p removes
\* one handler from the sequence of p, the one o registered: the sequence
\* is one shorter and is what it was without the handlers of o, the others
\* in their order; and the sequence of every other path is as it was.
C11_UnobserveRemovesOwnHandler ==
  [][(/\ stack = <<>>
      /\ call'.op = "unobserve"
      /\ ~isNaN(getObserverIndex(observers, call'.obs, ids[call'.inst],
                                 call'.path)))
       => LET i == call'.inst
              before == LookupList(observerList[i], call'.path)
              after == LookupList(observerList'[i], call'.path)
          IN /\ Len(after) = Len(before) - 1
             /\ Owners(after)
                  = SelectSeq(Owners(before), LAMBDA o : o # call'.obs)
             /\ \A q \in DOMAIN observerList[i] \ {call'.path} :
                   observerList'[i][q] = observerList[i][q]
    ]_vars

\* How many handlers registered by o the sequence of p holds.
HandlersOwned(i, p, o) ==
  LET _list == LookupList(observerList[i], p)
  IN Cardinality({k \in 1..Len(_list) : _list[k].o = o})

\* C12: in every reachable state, the sequence of a path holds at most one
\* handler registered by the same observer.
C12_OneHandlerPerObserverAndPath ==
  \A i \in DOMAIN observerList : \A p \in DOMAIN observerList[i] :
    \A o \in Observers : HandlersOwned(i, p, o) <= 1

\* o has no registration for p: it never called observeConfig(o, p, _), or
\* it called unobserveConfig(o, p) since.
Unregistered(i, p, o) == <<p, o>> \notin DOMAIN active[i]

\* The observer a handler unregisters when it is called.
Target(h) == IF h.kind = "unself" THEN h.o ELSE NextObserver(h.o)

\* The handlers a setConfigProperty of each path would call are the same
\* after the step as before it.
SameHandlers(i) ==
  \A q \in Paths :
    LookupList(observerList'[i], q) = LookupList(observerList[i], q)

\* C13: unobserveConfig(o, p) made while o has no registration for p, from
\* outside or by a handler, raises no error and removes no handler: every
\* sequence is as it was, so that a later setConfigProperty calls the same
\* handlers.
C13_UnobserveUnregisteredIsNoOp ==
  [][/\ (/\ stack = <<>>
         /\ call'.op = "unobserve"
         /\ Unregistered(call'.inst, call'.path, call'.obs))
          => call'.status = "returned" /\ SameHandlers(call'.inst)
     /\ (/\ stack # <<>>
         /\ stack[Len(stack)].i > 0
         /\ Callee(Cur, stack[Len(stack)]).kind \in {"unself", "unother"}
         /\ Unregistered(stack[Len(stack)].inst, stack[Len(stack)].property,
                         Target(Callee(Cur, stack[Len(stack)]))))
          => call'.status # "threw" /\ SameHandlers(stack[Len(stack)].inst)
    ]_vars

\* unobserveConfig was called for an observer that never registered, while
\* the path had the handler of another observer.
C13_Witness ==
  /\ call.op = "unobserve"
  /\ call.status = "returned"
  /\ call.obs = "o2"
  /\ observers["o2"] = <<>>
  /\ Owners(LookupList(observerList[call.inst], call.path)) = <<"o1">>

\* C14: getConfigProperty(p) never raises an error, whatever was written
\* before, a scalar at an intermediate segment of p included.
C14_ReadNeverFails == call.op = "get" => call.status # "threw"

\* A round is in progress for a setConfigProperty that has not returned.
WriteRunning == call.op = "set" /\ call.status = "running"

\* C15: every setConfigProperty call returns: it raises no error, the round
\* it starts, with the rounds its handlers start, comes to its end, and
\* when it has returned no round is left with calls to make.
C15_WriteRunsToCompletion ==
  /\ [](call.op = "set" => call.status # "threw")
  /\ [](call.status = "returned" => stack = <<>>)
  /\ WriteRunning ~> (call.op = "set" /\ call.status = "returned")

\* C16: when a setConfigProperty(p, v) made from outside a handler has
\* returned, every handler in the sequence of p that its rounds called was
\* last called with the value getConfigProperty(p) returns then.
C16_LastDeliveredIsStored ==
  (call.op = "set" /\ call.status = "returned") =>
    LET _list == LookupList(observerList[call.inst], call.path)
    IN \A k \in 1..Len(_list) :
         LET key == <<_list[k].o, _list[k].kind>>
         IN key \in DOMAIN call.delivered
              => Prim(call.delivered[key]) = Returned(call.inst, call.path)

=============================================================================
